---- MODULE Spec2Model ----
(***************************************************************************)
(* Model of one invocation of the azure_rm_rediscache Ansible module       *)
(* (lib/ansible/modules/cloud/azure/azure_rm_rediscache.py): argument      *)
(* handling, construction of the request payload, the existence check,     *)
(* the choice of action, its execution against the remote client, and the  *)
(* delete-confirmation loop.                                               *)
(*                                                                         *)
(* Python values are encoded as follows.                                   *)
(*   - str     : a tuple of one-character strings ("basic" is             *)
(*               <<"b","a","s","i","c">>), so that indexing, slicing and   *)
(*               splitting are computed, not assumed;                      *)
(*   - None/x  : None is <<>>, a value x is <<x>>;                         *)
(*   - dict    : a function from key strings to values.                    *)
(***************************************************************************)
EXTENDS Integers, Sequences, FiniteSets, TLC

\* ------------------------------------------------------------------ bounds

\* The largest number of consecutive existence checks for which the remote
\* service still reports a deleted instance as present (finite case).
MaxLinger == 2

\* Counters of an unbounded loop saturate here (above every finite case).
CountCap == MaxLinger + 2

\* ------------------------------------------------------------ Python values

None == <<>>

Some(v) == <<v>>

IsNone(o) == Len(o) = 0

Val(o) == o[1]

LowerCase == <<"a","b","c","d","e","f","g","h","i","j","k","l","m",
               "n","o","p","q","r","s","t","u","v","w","x","y","z">>

UpperCase == <<"A","B","C","D","E","F","G","H","I","J","K","L","M",
               "N","O","P","Q","R","S","T","U","V","W","X","Y","Z">>

\* str.upper() on one character
Upper(c) ==
    IF \E i \in 1..Len(LowerCase) : LowerCase[i] = c
    THEN UpperCase[CHOOSE i \in 1..Len(LowerCase) : LowerCase[i] = c]
    ELSE c

\* name[1:]
Tail1(s) == SubSeq(s, 2, Len(s))

\* The characters of s before its first sep (all of s when it has none).
RECURSIVE UpToSep(_, _)
UpToSep(s, sep) ==
    IF s = <<>> \/ Head(s) = sep THEN <<>>
    ELSE <<Head(s)>> \o UpToSep(Tail(s), sep)

\* str.split(sep): "a,b,c" -> ["a","b","c"], "" -> [""], "a," -> ["a",""]
RECURSIVE Split(_, _)
Split(s, sep) ==
    LET first == UpToSep(s, sep)
    IN  IF Len(first) = Len(s) THEN <<first>>
        ELSE <<first>> \o Split(SubSeq(s, Len(first) + 2, Len(s)), sep)

Comma == ","

\* -------------------------------------------------------------- the strings

basic == <<"b","a","s","i","c">>

standard == <<"s","t","a","n","d","a","r","d">>

premium == <<"p","r","e","m","i","u","m">>

Basic == <<"B","a","s","i","c">>

Standard == <<"S","t","a","n","d","a","r","d">>

Premium == <<"P","r","e","m","i","u","m">>

gold == <<"g","o","l","d">>

EmptyStr == <<>>

\* The choices documented for sku.name (DOCUMENTATION, line 41).
DocumentedSkuNames == {basic, standard, premium}

\* The same tiers in the casing the remote API uses (EXAMPLES uses "Basic").
CanonicalSkuNames == {Basic, Standard, Premium}

\* ------------------------------------------------------- the argument spec

\* The keys of self.module_arg_spec.
ModuleArgSpecKeys ==
    {"resource_group", "name", "sku", "location", "shard_count",
     "redis_configuration", "enable_non_ssl_port", "tags", "state"}

\* default= of each entry (None when the entry has none).
ArgDefault(key) ==
    CASE key = "enable_non_ssl_port" -> Some(FALSE)
      [] key = "state"               -> Some("present")
      [] OTHER                       -> None

\* choices= of each entry (None when the entry has none; sku is a plain
\* dict: its suboptions carry no choices).
ArgChoices(key) ==
    CASE key = "state" -> Some({"present", "absent"})
      [] OTHER         -> None

\* required=True
ArgRequired(key) == key \in {"resource_group", "name"}

\* The options the caller may write in a task: those of the argument spec,
\* and zones, which DOCUMENTATION lists and the argument spec does not.
CallerKeys == ModuleArgSpecKeys \cup {"zones"}

\* The host's validation of the caller's parameters against the argument
\* spec: no parameter outside the spec, required ones supplied, values
\* within choices.
ValidationOK(p) ==
    /\ \A k \in DOMAIN p : ~IsNone(p[k]) => k \in ModuleArgSpecKeys
    /\ \A k \in ModuleArgSpecKeys : ArgRequired(k) => ~IsNone(p[k])
    /\ \A k \in ModuleArgSpecKeys :
          (~IsNone(p[k]) /\ ~IsNone(ArgChoices(k))) => Val(p[k]) \in Val(ArgChoices(k))

\* The kwargs exec_module receives: one entry per key of the argument spec,
\* the default where the caller supplied nothing.
Kwargs(p) ==
    [k \in ModuleArgSpecKeys |-> IF IsNone(p[k]) THEN ArgDefault(k) ELSE p[k]]

\* ------------------------------------------------------ the request payload

\* The attributes __init__ sets on the instance (hasattr(self, key)).
InstanceAttrs ==
    {"resource_group", "name", "parameters", "results", "mgmt_client",
     "state", "to_do"}

\* name[0].upper() + name[1:]
Capitalize(name) == <<Upper(name[1])>> \o Tail1(name)

\* Family with a slip: the family does not follow the tier.
FamilyAlwaysC(sku_name) == "C"

\* 'P' if sku_name == 'Premium' else 'C'
Family(sku_name) == IF sku_name = Premium THEN "P" ELSE "C"

\* name[0] of an empty string raises IndexError.
SkuRaises(sku) == "name" \in DOMAIN sku /\ Len(sku.name) = 0

\* The dict ev built from kwargs['sku'].
SkuPayload(sku) ==
    LET dom == (IF "size" \in DOMAIN sku THEN {"capacity"} ELSE {})
               \cup (IF "name" \in DOMAIN sku THEN {"name", "family"} ELSE {})
    IN  [f \in dom |->
            CASE f = "capacity" -> sku.size
              [] f = "name"     -> Capitalize(sku.name)
              [] f = "family"   -> Family(Capitalize(sku.name))]

\* The keys the elif chain compares key against.
ChainKeys ==
    {"sku", "location", "redis_configuration", "shard_count",
     "enabled_non_ssl_port", "subnet_ip", "static_ip", "zones", "tags"}

\* The key of self.parameters a branch of the chain writes.
PayloadKey(key) ==
    IF key = "enabled_non_ssl_port" THEN "enable_non_ssl_port" ELSE key

\* The value a branch of the chain writes.
PayloadValue(key, v) ==
    CASE key = "sku"   -> SkuPayload(v)
      [] key = "zones" -> Split(v, Comma)
      [] OTHER         -> v

\* The keys of the loop that reach a branch of the chain: not an instance
\* attribute, not None, and named by a branch.
MappedKeys(kw) ==
    {key \in DOMAIN kw :
        /\ key \notin InstanceAttrs
        /\ ~IsNone(kw[key])
        /\ key \in ChainKeys}

\* BuildParameters with a slip: the "is not None" test is dropped, and a
\* parameter the caller left out is written as None.
BuildParametersKeepNone(kw) ==
    LET keys == {key \in DOMAIN kw : key \notin InstanceAttrs /\ key \in ChainKeys}
    IN  [pk \in {PayloadKey(k) : k \in keys} |->
            LET k == CHOOSE k \in keys : PayloadKey(k) = pk
            IN  IF IsNone(kw[k]) THEN None ELSE PayloadValue(k, Val(kw[k]))]

\* self.parameters after the loop over module_arg_spec.
BuildParameters(kw) ==
    LET keys == MappedKeys(kw)
    IN  [pk \in {PayloadKey(k) : k \in keys} |->
            LET k == CHOOSE k \in keys : PayloadKey(k) = pk
            IN  PayloadValue(k, Val(kw[k]))]

\* A key raises an exception inside the loop.
BuildRaises(kw) ==
    \E key \in MappedKeys(kw) : key = "sku" /\ SkuRaises(Val(kw[key]))

\* if "location" not in self.parameters: ... = resource_group.location
WithLocation(params, rg_location) ==
    [k \in DOMAIN params \cup {"location"} |->
        IF k \in DOMAIN params THEN params[k] ELSE rg_location]

\* ------------------------------------------------------------- the decision

NoAction == "NoAction"

Create == "Create"

Update == "Update"

Delete == "Delete"

\* Decide with a slip: an existing instance under present is left alone.
DecideNoUpdate(state, found, to_do0) ==
    IF ~found
    THEN IF state = "absent" THEN to_do0 ELSE Create
    ELSE IF state = "absent" THEN Delete ELSE to_do0

\* Decide with a slip: absent always asks for a delete.
DecideDeleteMissing(state, found, to_do0) ==
    IF state = "absent" THEN Delete
    ELSE IF ~found THEN Create
    ELSE IF state = "present" THEN Update
    ELSE to_do0

\* self.to_do after the existence check; found is the truth value of
\* old_response, to_do0 the value __init__ left in self.to_do.
Decide(state, found, to_do0) ==
    IF ~found
    THEN IF state = "absent" THEN to_do0 ELSE Create
    ELSE IF state = "absent" THEN Delete
         ELSE IF state = "present" THEN Update
         ELSE to_do0

\* ------------------------------------------------------- the remote service

\* resource_group.location of the resource group the instance lives in.
RgLocation == "westus"

\* response.as_dict() of an instance whose settings are props.
Resource(props) ==
    [id |-> "/subscriptions/s/resourceGroups/rg/providers/Microsoft.Cache/Redis/c",
     host_name |-> "c.redis.cache.windows.net",
     redis_version |-> "3.2.7",
     properties |-> props]

\* The settings of the instance that exists before the invocation.
ExistingProps == [location |-> RgLocation]

\* The settings after a create or an update with payload params: the fields
\* of the payload replace those of the instance, the others stay.
Merge(props, params) ==
    [k \in DOMAIN props \cup DOMAIN params |->
        IF k \in DOMAIN params THEN params[k] ELSE props[k]]

\* ---------------------------------------------------------------- the inputs

InputSkuNames == {basic, standard, premium, Basic, gold, EmptyStr}

SkuSizes == {1, 4}

SkuInputs ==
    {None, Some(<<>>), Some([size |-> 4]), Some([name |-> premium])}
    \cup {Some([name |-> n, size |-> c]) : n \in InputSkuNames, c \in SkuSizes}

ZonesInputs == {None, Some(EmptyStr), Some(<<"a", ",", "b", ",", "c">>)}

StateInputs == {None, Some("present"), Some("absent"), Some("purged")}

\* The parameters a caller may supply.
CallerParams ==
    {[k \in CallerKeys |->
        CASE k = "resource_group"      -> Some("rg")
          [] k = "name"                -> Some("c")
          [] k = "sku"                 -> sku
          [] k = "location"            -> loc
          [] k = "shard_count"         -> shards
          [] k = "redis_configuration" -> conf
          [] k = "enable_non_ssl_port" -> ssl
          [] k = "tags"                -> tags
          [] k = "state"               -> st
          [] k = "zones"               -> zones] :
        sku \in SkuInputs,
        loc \in {None, Some("eastus")},
        shards \in {None, Some(2)},
        conf \in {None, Some([maxmemory_policy |-> "allkeys-lru"])},
        ssl \in {None, Some(FALSE), Some(TRUE)},
        tags \in {None, Some([env |-> "test"])},
        st \in StateInputs,
        zones \in ZonesInputs}

\* ------------------------------------------------------------------ the state

VARIABLES
    params,        \* the caller's parameters
    check_mode,    \* self.check_mode
    pc,            \* the position of the invocation in exec_module
    kwargs,        \* the kwargs of exec_module
    state,         \* self.state
    parameters,    \* self.parameters
    to_do,         \* self.to_do
    old_response,  \* old_response (None for False)
    response,      \* response (None for None)
    results,       \* self.results
    failure,       \* the reason of self.fail / fail_json ("" while none)
    remote,        \* the instance as the remote service reports it (None: absent)
    deleting,      \* how long the service still reports a deleted instance
    exist_check,   \* how the existence check before the decision ended
    confirm,       \* the existence checks of the delete confirmation
    calls,         \* the remote calls issued so far, per operation
    sent,          \* the payload of the create or update call (None: no call)
    facts          \* the invocation of azure_rm_cosmosdbdatabaseaccount_facts

vars == <<params, check_mode, pc, kwargs, state, parameters, to_do,
          old_response, response, results, failure, remote, deleting,
          exist_check, confirm, calls, sent, facts>>

\* The variables of the azure_rm_rediscache invocation.
redisVars == <<params, check_mode, pc, kwargs, state, parameters, to_do,
               old_response, response, results, failure, remote, deleting,
               exist_check, confirm, calls, sent>>

\* AzureRMDatabaseAccountsFacts.__init__ for a task with account_name name
\* (None when left out), the resource group holding accounts:
\*   results  is self.results,
\*   response and list are the locals response and results of get and of
\*            list_by_resource_group, items what the for loop has left,
\*   outcome  how the remote call ended, raised the exception that ended
\*            the invocation ("" while none).
FactsStart(name, accounts) ==
    [pc             |-> "exec",
     kwargs         |-> [resource_group |-> Some("rg"), account_name |-> name],
     resource_group |-> None,
     account_name   |-> None,
     accounts       |-> accounts,
     results        |-> [changed |-> FALSE, ansible_facts |-> <<>>],
     response       |-> None,
     list           |-> <<>>,
     items          |-> <<>>,
     outcome        |-> "none",
     raised         |-> ""]

NoCalls == [get |-> 0, create |-> 0, update |-> 0, delete |-> 0, sleep |-> 0]

NotDeleting == [active |-> FALSE, forever |-> FALSE, n0 |-> 0, left |-> 0]

\* A counter of a loop without bound saturates at CountCap.
Inc(n) == IF n < CountCap THEN n + 1 ELSE n

\* __init__, before exec_module runs.
Init ==
    /\ params \in CallerParams
    /\ check_mode \in BOOLEAN
    /\ remote \in {None, Some(Resource(ExistingProps))}
    /\ pc = "validate"
    /\ kwargs = None
    /\ state = None
    /\ parameters = <<>>
    /\ to_do = NoAction
    /\ old_response = None
    /\ response = None
    /\ results = [changed |-> FALSE]
    /\ failure = ""
    /\ deleting = NotDeleting
    /\ exist_check = "none"
    /\ confirm = [found |-> 0, errors |-> 0]
    /\ calls = NoCalls
    /\ sent = None
    /\ facts = FactsStart(None, <<>>)

\* ------------------------------------------------------- the remote calls

\* The ways self.mgmt_client.redis.get can end: the instance, a CloudError
\* saying it does not exist, or a CloudError of another kind (denied,
\* throttled, a server error), which may meet any call.
GetOutcomes ==
    (IF IsNone(remote) THEN {"notfound"} ELSE {"found"}) \cup {"error"}

\* What get_rediscache returns for an outcome: the dict, or False (None).
GetResult(outcome) == IF outcome = "found" THEN remote ELSE None

\* The service after one more existence check of a deleted instance.
AfterCheck(d) ==
    IF d.active /\ ~d.forever /\ d.left > 0
    THEN [d EXCEPT !.left = d.left - 1]
    ELSE d

\* The instance is gone once no check is left to report it.
Visible(d, r) == IF d.active /\ ~d.forever /\ d.left = 0 THEN None ELSE r

\* ------------------------------------------------------------ the invocation

\* The host validates the caller's parameters and calls exec_module with
\* the kwargs, or fails the task.
ValidateArgs ==
    /\ pc = "validate"
    /\ IF ValidationOK(params)
       THEN /\ kwargs' = Some(Kwargs(params))
            /\ pc' = "build"
            /\ UNCHANGED failure
       ELSE /\ pc' = "failed"
            /\ failure' = "validation"
            /\ UNCHANGED kwargs
    /\ UNCHANGED <<facts, params, check_mode, state, parameters, to_do, old_response,
                   response, results, remote, deleting, exist_check, confirm,
                   calls, sent>>

\* The loop over module_arg_spec: the instance attributes, then the payload.
BuildRequest ==
    /\ pc = "build"
    /\ IF BuildRaises(Val(kwargs))
       THEN /\ pc' = "crashed"
            /\ UNCHANGED <<state, parameters>>
       ELSE /\ pc' = "resource_group"
            /\ state' = Val(kwargs)["state"]
            /\ parameters' = BuildParameters(Val(kwargs))
    /\ UNCHANGED <<facts, params, check_mode, kwargs, to_do, old_response, response,
                   results, failure, remote, deleting, exist_check, confirm,
                   calls, sent>>

\* get_resource_group and the default of location; the lookup of the
\* resource group fails the task when the group cannot be read.
GetResourceGroup ==
    /\ pc = "resource_group"
    /\ \E ok \in BOOLEAN :
          IF ok
          THEN /\ parameters' = (IF "location" \notin DOMAIN parameters
                                 THEN WithLocation(parameters, RgLocation)
                                 ELSE parameters)
               /\ pc' = "observe"
               /\ UNCHANGED failure
          ELSE /\ pc' = "failed"
               /\ failure' = "resource_group"
               /\ UNCHANGED parameters
    /\ UNCHANGED <<facts, params, check_mode, kwargs, state, to_do, old_response,
                   response, results, remote, deleting, exist_check, confirm,
                   calls, sent>>

\* old_response = self.get_rediscache()
Observe ==
    /\ pc = "observe"
    /\ \E outcome \in GetOutcomes :
          /\ old_response' = GetResult(outcome)
          /\ exist_check' = outcome
    /\ calls' = [calls EXCEPT !.get = Inc(calls.get)]
    /\ pc' = "decide"
    /\ UNCHANGED <<facts, params, check_mode, kwargs, state, parameters, to_do,
                   response, results, failure, remote, deleting, confirm, sent>>

\* if not old_response: ... else: ...
DecideAction ==
    /\ pc = "decide"
    /\ to_do' = Decide(Val(state), ~IsNone(old_response), to_do)
    /\ pc' = "execute"
    /\ UNCHANGED <<facts, params, check_mode, kwargs, state, parameters,
                   old_response, response, results, failure, remote, deleting,
                   exist_check, confirm, calls, sent>>

\* Changed with a slip: every create or update is reported as a change.
ChangedAlways(old, new) == TRUE

\* self.results['changed'] after a create or an update
Changed(old, new) == IF IsNone(old) THEN TRUE ELSE Val(old) # new

\* The branch for Create and Update, with create_update_rediscache.
ExecCreateUpdate ==
    /\ pc = "execute"
    /\ to_do \in {Create, Update}
    /\ IF check_mode
       THEN /\ results' = [results EXCEPT !.changed = TRUE]
            /\ pc' = "done"
            /\ UNCHANGED <<response, failure, remote, calls, sent>>
       ELSE /\ sent' = Some(parameters)
            /\ calls' = (IF to_do = Create
                         THEN [calls EXCEPT !.create = calls.create + 1]
                         ELSE [calls EXCEPT !.update = calls.update + 1])
            /\ \E ok \in BOOLEAN :
                  IF ok
                  THEN LET props == IF IsNone(remote) THEN parameters
                                    ELSE Merge(Val(remote).properties, parameters)
                           new == Resource(props)
                       IN  /\ remote' = Some(new)
                           /\ response' = Some(new)
                           /\ results' = [results EXCEPT
                                            !.changed = Changed(old_response, new)]
                           /\ pc' = "finish"
                           /\ UNCHANGED failure
                  ELSE /\ pc' = "failed"
                       /\ failure' = "create_update"
                       /\ UNCHANGED <<response, results, remote>>
    /\ UNCHANGED <<facts, params, check_mode, kwargs, state, parameters, to_do,
                   old_response, deleting, exist_check, confirm>>

\* The service's answer to a delete: the instance goes at once, stays
\* visible for some more existence checks, or stays visible for good.
DeleteAnswers ==
    {[active |-> TRUE, forever |-> FALSE, n0 |-> n, left |-> n] : n \in 0..MaxLinger}
    \cup {[active |-> TRUE, forever |-> TRUE, n0 |-> 0, left |-> 0]}

\* ExecDelete with a slip: check mode is not looked at.
ExecDeleteInCheckMode ==
    /\ pc = "execute"
    /\ to_do = Delete
    /\ results' = [results EXCEPT !.changed = TRUE]
    /\ calls' = [calls EXCEPT !.delete = calls.delete + 1]
    /\ \E ok \in BOOLEAN :
          IF ok
          THEN /\ \E d \in DeleteAnswers :
                     /\ deleting' = d
                     /\ remote' = Visible(d, remote)
               /\ pc' = "confirm"
               /\ UNCHANGED failure
          ELSE /\ pc' = "failed"
               /\ failure' = "delete"
               /\ UNCHANGED <<remote, deleting>>
    /\ UNCHANGED <<facts, params, check_mode, kwargs, state, parameters, to_do,
                   old_response, response, exist_check, confirm, sent>>

\* The branch for Delete up to the confirmation loop, with delete_rediscache.
ExecDelete ==
    /\ pc = "execute"
    /\ to_do = Delete
    /\ results' = [results EXCEPT !.changed = TRUE]
    /\ IF check_mode
       THEN /\ pc' = "done"
            /\ UNCHANGED <<failure, remote, deleting, calls>>
       ELSE /\ calls' = [calls EXCEPT !.delete = calls.delete + 1]
            /\ \E ok \in BOOLEAN :
                  IF ok
                  THEN /\ \E d \in DeleteAnswers :
                             /\ deleting' = d
                             /\ remote' = Visible(d, remote)
                       /\ pc' = "confirm"
                       /\ UNCHANGED failure
                  ELSE /\ pc' = "failed"
                       /\ failure' = "delete"
                       /\ UNCHANGED <<remote, deleting>>
    /\ UNCHANGED <<facts, params, check_mode, kwargs, state, parameters, to_do,
                   old_response, response, exist_check, confirm, sent>>

\* ExecNoAction with a slip: the instance is fetched again.
ExecNoActionRefetch ==
    /\ pc = "execute"
    /\ to_do \notin {Create, Update, Delete}
    /\ results' = [results EXCEPT !.changed = FALSE]
    /\ calls' = [calls EXCEPT !.get = Inc(calls.get)]
    /\ response' = remote
    /\ pc' = "finish"
    /\ UNCHANGED <<facts, params, check_mode, kwargs, state, parameters, to_do,
                   old_response, failure, remote, deleting, exist_check,
                   confirm, sent>>

\* The else branch: nothing to do.
ExecNoAction ==
    /\ pc = "execute"
    /\ to_do \notin {Create, Update, Delete}
    /\ results' = [results EXCEPT !.changed = FALSE]
    /\ response' = old_response
    /\ pc' = "finish"
    /\ UNCHANGED <<facts, params, check_mode, kwargs, state, parameters, to_do,
                   old_response, failure, remote, deleting, exist_check,
                   confirm, calls, sent>>

\* ConfirmGet with a slip: one existence check, whatever it reports.
ConfirmGetOnce ==
    /\ pc = "confirm"
    /\ calls' = [calls EXCEPT !.get = Inc(calls.get)]
    /\ \E outcome \in GetOutcomes :
          confirm' = [found  |-> IF outcome = "found"
                                 THEN Inc(confirm.found) ELSE confirm.found,
                      errors |-> IF outcome = "error"
                                 THEN Inc(confirm.errors) ELSE confirm.errors]
    /\ pc' = "finish"
    /\ deleting' = AfterCheck(deleting)
    /\ remote' = Visible(AfterCheck(deleting), remote)
    /\ UNCHANGED <<facts, params, check_mode, kwargs, state, parameters, to_do,
                   old_response, response, results, failure, exist_check, sent>>

\* while self.get_rediscache(): one evaluation of the condition.
ConfirmGet ==
    /\ pc = "confirm"
    /\ calls' = [calls EXCEPT !.get = Inc(calls.get)]
    /\ \E outcome \in GetOutcomes :
          /\ confirm' = [found  |-> IF outcome = "found"
                                    THEN Inc(confirm.found) ELSE confirm.found,
                         errors |-> IF outcome = "error"
                                    THEN Inc(confirm.errors) ELSE confirm.errors]
          /\ pc' = IF ~IsNone(GetResult(outcome)) THEN "sleep" ELSE "finish"
    /\ deleting' = AfterCheck(deleting)
    /\ remote' = Visible(AfterCheck(deleting), remote)
    /\ UNCHANGED <<facts, params, check_mode, kwargs, state, parameters, to_do,
                   old_response, response, results, failure, exist_check, sent>>

\* time.sleep(20), the body of the loop.
Sleep ==
    /\ pc = "sleep"
    /\ calls' = [calls EXCEPT !.sleep = Inc(calls.sleep)]
    /\ pc' = "confirm"
    /\ UNCHANGED <<facts, params, check_mode, kwargs, state, parameters, to_do,
                   old_response, response, results, failure, remote, deleting,
                   exist_check, confirm, sent>>

\* The keys of the response copied into the results.
WithResponse(res, resp) ==
    [k \in DOMAIN res \cup {"id", "host_name", "version"} |->
        CASE k = "id"        -> resp.id
          [] k = "host_name" -> resp.host_name
          [] k = "version"   -> resp.redis_version
          [] OTHER           -> res[k]]

\* if response: ...; return self.results
Finish ==
    /\ pc = "finish"
    /\ results' = (IF ~IsNone(response)
                   THEN WithResponse(results, Val(response))
                   ELSE results)
    /\ pc' = "done"
    /\ UNCHANGED <<facts, params, check_mode, kwargs, state, parameters, to_do,
                   old_response, response, failure, remote, deleting,
                   exist_check, confirm, calls, sent>>

Next ==
    \/ ValidateArgs
    \/ BuildRequest
    \/ GetResourceGroup
    \/ Observe
    \/ DecideAction
    \/ ExecCreateUpdate
    \/ ExecDelete
    \/ ExecNoAction
    \/ ConfirmGet
    \/ Sleep
    \/ Finish

Spec == Init /\ [][Next]_vars

\* The invocation is a sequential program: it takes its next step whenever
\* it has one.
LiveSpec == Spec /\ WF_vars(Next)

\* The invocation has returned, failed the task or raised.
Terminated == pc \in {"done", "failed", "crashed"}

TypeOK ==
    /\ pc \in {"validate", "build", "resource_group", "observe", "decide",
               "execute", "confirm", "sleep", "finish", "done", "failed",
               "crashed"}
    /\ to_do \in {NoAction, Create, Update, Delete}
    /\ failure \in {"", "validation", "resource_group", "create_update", "delete"}
    /\ exist_check \in {"none", "found", "notfound", "error"}
    /\ calls.get \in 0..CountCap /\ calls.sleep \in 0..CountCap

\* ------------------------------- azure_rm_cosmosdbdatabaseaccount_facts

\* The most database accounts a resource group holds.
MaxAccounts == 2

AccountNames == {"ddb1", "ddb2", "ddb3"}

\* item.as_dict() of the database account called name.
Account(name) ==
    [id       |-> <<"/subscriptions/s/resourceGroups/rg/providers/Microsoft.DocumentDB/databaseAccounts", name>>,
     name     |-> name,
     type     |-> "Microsoft.DocumentDB/databaseAccounts",
     location |-> "West US",
     kind     |-> "GlobalDocumentDB"]

\* The lists of accounts a resource group may hold: no name twice.
AccountLists ==
    UNION {{l \in [1..n -> {Account(a) : a \in AccountNames}] :
              \A i, j \in 1..n : i # j => l[i] # l[j]} : n \in 0..MaxAccounts}

\* format_item: the dict built from item.as_dict().
FormatItem(item, resource_group) ==
    [id |-> item.id, resource_group |-> resource_group]

\* results.push(...): a Python list has append and no push; the attribute
\* lookup raises AttributeError before the argument is evaluated.
PushRaises == "AttributeError"

\* The state before exec_module runs.
FactsInit ==
    /\ facts \in {FactsStart(name, accounts) :
                    name \in {None} \cup {Some(a) : a \in AccountNames},
                    accounts \in AccountLists}
    /\ params = [k \in CallerKeys |-> None]
    /\ check_mode = FALSE
    /\ remote = None
    /\ pc = "validate"
    /\ kwargs = None
    /\ state = None
    /\ parameters = <<>>
    /\ to_do = NoAction
    /\ old_response = None
    /\ response = None
    /\ results = [changed |-> FALSE]
    /\ failure = ""
    /\ deleting = NotDeleting
    /\ exist_check = "none"
    /\ confirm = [found |-> 0, errors |-> 0]
    /\ calls = NoCalls
    /\ sent = None

\* exec_module up to the choice between get and list_by_resource_group.
FactsExec ==
    /\ facts.pc = "exec"
    /\ LET rg == facts.kwargs.resource_group
           an == facts.kwargs.account_name
       IN  facts' = [facts EXCEPT
                       !.resource_group = rg,
                       !.account_name = an,
                       !.pc = IF ~IsNone(rg) /\ ~IsNone(an) THEN "get"
                              ELSE IF ~IsNone(rg) THEN "list"
                              ELSE "return"]
    /\ UNCHANGED redisVars

\* The ways database_accounts.get can end.
FactsGetOutcomes ==
    (IF \E i \in 1..Len(facts.accounts) :
            facts.accounts[i].name = Val(facts.account_name)
     THEN {"ok"} ELSE {"notfound"}) \cup {"error"}

\* get
FactsGet ==
    /\ facts.pc = "get"
    /\ \E outcome \in FactsGetOutcomes :
          IF outcome = "ok"
          THEN LET i == CHOOSE i \in 1..Len(facts.accounts) :
                           facts.accounts[i].name = Val(facts.account_name)
               IN  facts' = [facts EXCEPT
                               !.outcome = outcome,
                               !.response = Some(facts.accounts[i]),
                               !.raised = PushRaises,
                               !.pc = "crashed"]
          ELSE facts' = [facts EXCEPT
                           !.outcome = outcome,
                           !.results = [k \in DOMAIN facts.results
                                             \cup {"database_accounts"} |->
                                          IF k = "database_accounts" THEN facts.list
                                          ELSE facts.results[k]],
                           !.pc = "return"]
    /\ UNCHANGED redisVars

\* list_by_resource_group up to the for loop
FactsList ==
    /\ facts.pc = "list"
    /\ \E outcome \in {"ok", "error"} :
          facts' = [facts EXCEPT
                      !.outcome = outcome,
                      !.response = IF outcome = "ok" THEN Some(facts.accounts)
                                   ELSE None,
                      !.items = IF outcome = "ok" THEN facts.accounts ELSE <<>>,
                      !.pc = "loop"]
    /\ UNCHANGED redisVars

\* for item in response: results.push(format_item(item)), then return results
FactsLoop ==
    /\ facts.pc = "loop"
    /\ IF facts.items # <<>>
       THEN facts' = [facts EXCEPT !.raised = PushRaises, !.pc = "crashed"]
       ELSE facts' = [facts EXCEPT
                        !.results = [k \in DOMAIN facts.results
                                          \cup {"database_accounts"} |->
                                       IF k = "database_accounts" THEN facts.list
                                       ELSE facts.results[k]],
                        !.pc = "return"]
    /\ UNCHANGED redisVars

\* return self.results
FactsReturn ==
    /\ facts.pc = "return"
    /\ facts' = [facts EXCEPT !.pc = "done"]
    /\ UNCHANGED redisVars

FactsNext ==
    \/ FactsExec
    \/ FactsGet
    \/ FactsList
    \/ FactsLoop
    \/ FactsReturn

FactsSpec == FactsInit /\ [][FactsNext]_vars

\* ------------------------------------------------------------ the properties

\* The caller supplied parameter F with a value other than None.
Supplied(F) == F \in DOMAIN params /\ ~IsNone(params[F])

\* The loop over module_arg_spec has run to its end.
Built == pc \notin {"validate", "build", "crashed"} /\ failure # "validation"

\* The action has been chosen.
Decided ==
    \/ pc \in {"execute", "confirm", "sleep", "finish"}
    \/ pc = "done"
    \/ pc = "failed" /\ failure \in {"create_update", "delete"}

\* The number of create, update and delete calls issued.
Mutations == calls.create + calls.update + calls.delete

\* C1: once the action is chosen it is the one of the truth table over the
\* requested state and the result of the existence check: absent and missing
\* give NoAction, absent and existing Delete, present and missing Create,
\* present and existing Update.
C1_TruthTable ==
    Decided =>
        LET found == ~IsNone(old_response)
            st == Val(state)
        IN  /\ st \in {"present", "absent"}
            /\ (st = "absent" /\ ~found) => to_do = NoAction
            /\ (st = "absent" /\ found) => to_do = Delete
            /\ (st = "present" /\ ~found) => to_do = Create
            /\ (st = "present" /\ found) => to_do = Update

C1_Witness ==
    /\ pc = "execute"
    /\ Val(state) = "present"
    /\ ~IsNone(old_response)
    /\ to_do = Update

\* C2: a delete that is followed by N reports of "still present" and then a
\* report of absence issues one delete call, waits once per report of
\* presence (N waits), and returns only once the instance is reported absent.
C2_DeleteThenConfirm ==
    /\ (pc \in {"finish", "done"} /\ to_do = Delete /\ ~check_mode
          /\ confirm.errors = 0) =>
            /\ calls.delete = 1
            /\ ~deleting.forever
            /\ confirm.found = deleting.n0
            /\ calls.sleep = deleting.n0
            /\ calls.get = deleting.n0 + 2
            /\ IsNone(remote)
    /\ (pc \in {"confirm", "sleep"}) =>
            /\ calls.delete = 1
            /\ calls.sleep <= confirm.found
            /\ (confirm.errors = 0 /\ ~deleting.forever) => calls.sleep <= deleting.n0

C2_Witness ==
    /\ pc = "done"
    /\ to_do = Delete
    /\ confirm.errors = 0
    /\ deleting.n0 = MaxLinger
    /\ calls.sleep = MaxLinger
    /\ calls.delete = 1

\* C3: when the service never reports the deleted instance as absent, the
\* invocation still comes to an end.
C3_ConfirmationEnds ==
    (pc = "confirm" /\ deleting.forever) ~> Terminated

\* The fields of the payload the caller declares one to one.
DeclaredFields ==
    {"sku", "location", "shard_count", "redis_configuration",
     "enable_non_ssl_port", "tags"}

\* The fields a branch of the loop can write into the payload.
PayloadFields == DeclaredFields \cup {"zones", "subnet_ip", "static_ip"}

\* C4 (as claimed): the payload of the create or update call has no field
\* that the caller did not supply.
C4_OnlySuppliedFields ==
    ~IsNone(sent) =>
        \A F \in PayloadFields : ~Supplied(F) => F \notin DOMAIN Val(sent)

\* C4 (amended): the payload of the create or update call has no field the
\* caller did not supply, except location, which then carries the location
\* of the resource group.
C4_OnlySuppliedFieldsButLocation ==
    ~IsNone(sent) =>
        /\ \A F \in PayloadFields \ {"location"} :
              ~Supplied(F) => F \notin DOMAIN Val(sent)
        /\ ~Supplied("location") =>
              /\ "location" \in DOMAIN Val(sent)
              /\ Val(sent)["location"] = RgLocation
        /\ \A F \in DOMAIN Val(sent) : F \in PayloadFields

C4_Witness ==
    /\ ~IsNone(sent)
    /\ Supplied("sku")
    /\ "sku" \in DOMAIN Val(sent)
    /\ ~Supplied("tags")
    /\ ~Supplied("shard_count")
    /\ ~Supplied("location")

\* C5: every declared field the caller supplies is in the payload of the
\* create or update call; a supplied enable_non_ssl_port is there under the
\* key enable_non_ssl_port, with the value supplied.
C5_SuppliedFieldsMapped ==
    ~IsNone(sent) =>
        /\ \A F \in DeclaredFields : Supplied(F) => F \in DOMAIN Val(sent)
        /\ Supplied("enable_non_ssl_port") =>
              Val(sent)["enable_non_ssl_port"] = Val(params["enable_non_ssl_port"])

\* The tier name the remote API expects for a documented choice.
CanonicalName(name) ==
    CASE name = basic    -> Basic
      [] name = standard -> Standard
      [] name = premium  -> Premium

\* C6: for a documented tier name and a size, the sku of the payload has the
\* name with its first letter in upper case, the size as capacity, and the
\* family P for Premium and C for Basic and Standard; with the instance
\* missing and state present the action is Create.
C6_SkuCanonical ==
    (Built /\ Supplied("sku")) =>
        LET sku == Val(params["sku"])
        IN  ("name" \in DOMAIN sku /\ "size" \in DOMAIN sku
                /\ sku.name \in DocumentedSkuNames) =>
              /\ "sku" \in DOMAIN parameters
              /\ parameters["sku"] =
                    [name     |-> CanonicalName(sku.name),
                     capacity |-> sku.size,
                     family   |-> IF sku.name = premium THEN "P" ELSE "C"]
              /\ ~IsNone(sent) => Val(sent)["sku"] = parameters["sku"]
              /\ (Decided /\ Val(state) = "present" /\ exist_check = "notfound")
                    => to_do = Create

C6_Witness ==
    /\ pc = "done"
    /\ Supplied("sku")
    /\ ~IsNone(sent)
    /\ Val(params["sku"]) = [name |-> premium, size |-> 4]
    /\ exist_check = "notfound"
    /\ to_do = Create
    /\ Val(sent)["sku"] = [name |-> Premium, capacity |-> 4, family |-> "P"]

\* The tier names the module documents, in either casing.
RecognisedSkuNames == DocumentedSkuNames \cup CanonicalSkuNames

\* The caller supplied a sku whose name is no recognised tier.
UnrecognisedSku ==
    /\ Supplied("sku")
    /\ "name" \in DOMAIN Val(params["sku"])
    /\ Val(params["sku"]).name \notin RecognisedSkuNames

\* C7: with a sku name outside the recognised tiers no remote call is
\* issued and no payload reaches the remote client.
C7_UnrecognisedSkuRejected ==
    UnrecognisedSku => (calls = NoCalls /\ IsNone(sent))

\* The caller's parameters would pass validation without zones.
ValidButForZones == ValidationOK([params EXCEPT !["zones"] = None])

\* C8: a zones string with parts is accepted and is in the payload as the
\* list of its parts; an empty or missing zones leaves the payload without
\* a zones key.
C8_ZonesExpanded ==
    /\ (Supplied("zones") /\ Val(params["zones"]) # EmptyStr /\ ValidButForZones) =>
          /\ failure # "validation"
          /\ Built => /\ "zones" \in DOMAIN parameters
                      /\ parameters["zones"] = <<<<"a">>, <<"b">>, <<"c">>>>
    /\ (Built /\ (~Supplied("zones") \/ Val(params["zones"]) = EmptyStr)) =>
          "zones" \notin DOMAIN parameters

\* C9: a get that fails for another reason than "not found" is not taken
\* for absence: after one, before the decision, no action is chosen and no
\* call follows; after one in the delete confirmation the invocation does
\* not return as if the deletion were confirmed. A failing create, update
\* or delete fails the invocation.
C9_ErrorsPropagate ==
    /\ exist_check = "error" =>
          /\ pc \in {"decide", "failed"}
          /\ to_do = NoAction
          /\ Mutations = 0
    /\ confirm.errors > 0 => pc \notin {"finish", "done"}
    /\ failure \in {"create_update", "delete"} => pc = "failed"

\* C10: the instance is fetched once, before the action is chosen; at most
\* one create, update or delete call follows, the one of the action; the
\* instance is fetched again only after a delete call.
C10_ObserveDecideExecute ==
    /\ pc \in {"validate", "build", "resource_group", "observe"} =>
          (calls = NoCalls /\ to_do = NoAction)
    /\ (pc \in {"failed", "crashed"}
          /\ failure \notin {"create_update", "delete"}) => calls = NoCalls
    /\ pc = "decide" => (calls.get = 1 /\ Mutations = 0 /\ to_do = NoAction)
    /\ Decided => calls.get >= 1
    /\ Mutations <= 1
    /\ calls.create = 1 => to_do = Create
    /\ calls.update = 1 => to_do = Update
    /\ calls.delete = 1 => to_do = Delete
    /\ calls.get > 1 => (to_do = Delete /\ calls.delete = 1 /\ failure = "")
    /\ calls.sleep > 0 => calls.delete = 1
    /\ pc = "execute" => Mutations = 0

C10_Witness ==
    /\ pc = "done"
    /\ to_do = Delete
    /\ calls.delete = 1
    /\ calls.get = 3
    /\ calls.sleep = 1

\* The keys RETURN documents as "returned: always".
AlwaysReturned == {"id", "version", "host_name"}

\* C11: with state absent and the instance already absent, the invocation
\* issues no delete call, does not wait or check again, does not fail, and
\* reports changed = false.
C11_DeleteIdempotent ==
    (exist_check = "notfound" /\ Val(state) = "absent") =>
        /\ pc \in {"decide", "execute", "finish", "done"}
        /\ failure = ""
        /\ to_do = NoAction
        /\ Mutations = 0
        /\ calls.sleep = 0
        /\ calls.get = 1
        /\ results.changed = FALSE
        /\ IsNone(remote)

C11_Witness ==
    /\ pc = "done"
    /\ exist_check = "notfound"
    /\ Val(state) = "absent"
    /\ ~check_mode
    /\ calls.delete = 0
    /\ results.changed = FALSE

\* C12: the result of every invocation that returns has the keys id,
\* version and host_name.
C12_AlwaysReturnedKeys ==
    pc = "done" => AlwaysReturned \subseteq DOMAIN results

\* The entries the facts module is to return for a list of accounts.
RECURSIVE Formatted(_, _)
Formatted(accounts, resource_group) ==
    IF accounts = <<>> THEN <<>>
    ELSE <<FormatItem(Head(accounts), resource_group)>>
         \o Formatted(Tail(accounts), resource_group)

\* C13: the facts module never ends in an unhandled error and reports
\* changed = false; when it returns, database_accounts is a list: with
\* account_name, the formatted account when the get found it and empty when
\* the get failed; without, one formatted entry per account listed.
C13_FactsAlwaysReturn ==
    /\ facts.pc # "crashed"
    /\ facts.raised = ""
    /\ facts.results.changed = FALSE
    /\ facts.pc = "done" =>
          /\ "database_accounts" \in DOMAIN facts.results
          /\ LET got == facts.results["database_accounts"]
                 rg == Val(facts.resource_group)
             IN  IF ~IsNone(facts.account_name)
                 THEN IF facts.outcome = "ok"
                      THEN got = Formatted(<<Val(facts.response)>>, rg)
                      ELSE got = <<>>
                 ELSE facts.outcome = "ok" => got = Formatted(facts.accounts, rg)

\* C14: the changed flag of an invocation that returns after acting: true
\* after a create call and after a delete call, false when nothing was to
\* do, and after an update call true exactly when the state the call
\* returned differs from the state observed before it.
C14_ChangedMatches ==
    pc = "done" =>
        /\ calls.create = 1 => results.changed = TRUE
        /\ calls.delete = 1 => results.changed = TRUE
        /\ to_do = NoAction => results.changed = FALSE
        /\ calls.update = 1 =>
              /\ ~IsNone(old_response) /\ ~IsNone(response)
              /\ results.changed = (Val(response) # Val(old_response))
              /\ remote = response

C14_Witness ==
    /\ pc = "done"
    /\ calls.update = 1
    /\ ~IsNone(old_response)
    /\ response = old_response
    /\ results.changed = FALSE

\* C15: in check mode no create, update or delete call is issued, the
\* delete confirmation is not entered, the instance stays as the existence
\* check saw it, and the invocation reports changed = true exactly when the
\* action is Create, Update or Delete.
C15_CheckModeFrame ==
    check_mode =>
        /\ Mutations = 0
        /\ IsNone(sent)
        /\ calls.sleep = 0
        /\ calls.get <= 1
        /\ pc \notin {"confirm", "sleep"}
        /\ deleting = NotDeleting
        /\ remote \in {None, Some(Resource(ExistingProps))}
        /\ exist_check = "found" => remote = old_response
        /\ exist_check = "notfound" => IsNone(remote)
        /\ pc = "done" => (results.changed = (to_do \in {Create, Update, Delete}))

C15_Witness ==
    /\ check_mode
    /\ pc = "done"
    /\ to_do = Delete
    /\ results.changed = TRUE
    /\ calls.delete = 0
    /\ ~IsNone(remote)

====
